---- MODULE Spec2Model ----
(***************************************************************************)
(* UCNet_Spatial.py: the training run of main (initWeights, the optimizer  *)
(* parameter groups, resume, MultiStepLR, the epoch loop of train /        *)
(* adjust_bn_stats / evaluate, and the final test phase), the loop body of *)
(* train step by step, the batch construction of MyDataset / AugData /     *)
(* reshape, and the construction and forward shapes of the network.        *)
(***************************************************************************)
EXTENDS Integers, Sequences, FiniteSets, TLC

VARIABLES
    pc,          \* position in main
    model,       \* [w: parameter values, bn: batch-norm running statistics]
    optimizer,   \* [wd, rest: parameter groups; lrExp, initial_lr, mom]
    grad,        \* number of batches whose gradients are summed in .grad
    scheduler,   \* [last_epoch] of MultiStepLR, or NoSched
    torchSched,  \* which MultiStepLR.get_lr the installed torch has
    statePath,   \* checkpoint given by args.statePath, or NoFile
    paramsFile,  \* file at PARAMS_PATH, or NoFile
    startEpoch,
    it,          \* next value of range(startEpoch, EPOCHS + 1)
    epoch,       \* the variable epoch of main; Unbound before assignment
    best_acc,
    i,           \* batches of the running loader pass already consumed
    tr,          \* train's loop body: [k: next statement, output, loss]
    adjusted,    \* history: adjust_bn_stats batches since the parameters last changed
    maxAll,      \* history: highest accuracy of all evaluate calls of the epoch loop
    lateMax,     \* history: highest accuracy of the loop's evaluate calls with epoch > TMP
    fileAcc,     \* history: accuracy of the evaluate call that wrote paramsFile
    lastWriter,  \* history: who wrote paramsFile last
    lateArg,     \* history: first epoch > TMP whose evaluate call gave lateMax
    stepsInEpoch,\* history: optimizer steps taken by the current train call
    phaseLog,    \* history: the calls main made since the last for / load
    bt,          \* batch construction: the samples drawn, the collated and reshaped batch
    nt           \* construction and forward pass of a module of the network

vars == <<pc, model, optimizer, grad, scheduler, torchSched, statePath, paramsFile,
          startEpoch, it, epoch, best_acc, i, tr, adjusted, maxAll, lateMax, fileAcc,
          lastWriter, lateArg, stepsInEpoch, phaseLog, bt, nt>>

----------------------------------------------------------------------------
(* Bounds of the model *)

\* batches the training loader yields per pass (len(train_loader))
NumBatches == 2
\* accuracies are counted in units of 1/AccLevels: 0 .. AccLevels
AccLevels == 2
\* items of a dataset, and the largest batch the loader is asked for
NumItems == 3
MaxBatch == 2
\* images are ImgSize x ImgSize pixels
ImgSize == 2
\* images per forward pass, and the small image sides tried next to IMAGE_SIZE
MaxN == 2
MaxSide == 8

(* Program constants *)
IMAGE_SIZE == 256
EPOCHS == 250
TMP == 190
EVAL_PRINT_FREQUENCY == 1
DECAY_EPOCH == {80, 140, 190}

NetIdle == [pc |-> "idle"]
NoFile == [epoch |-> 0]
NoSched == [last_epoch |-> -1]
Unbound == 0

----------------------------------------------------------------------------
(* The network's parameters, as model.parameters() yields them *)

Params == {"pre.hpf.weight", "conv.weight", "conv.bias", "bn.weight", "bn.bias",
           "fc1.weight", "fc1.bias"}

\* every parameter trainable, the filter bank included
requires_grad_all(p) == TRUE

\* nn.Parameter(..., requires_grad=False) for the filter bank; every other
\* parameter is created by its layer with requires_grad=True
requires_grad(p) == p # "pre.hpf.weight"

\* param_item.dim()
dim(p) == CASE p \in {"pre.hpf.weight", "conv.weight"} -> 4
            [] p = "fc1.weight" -> 2
            [] OTHER -> 1

\* type(module) of the module owning the parameter
moduleType(p) == CASE p \in {"pre.hpf.weight", "conv.weight", "conv.bias"} -> "Conv2d"
                   [] p \in {"bn.weight", "bn.bias"} -> "BatchNorm2d"
                   [] OTHER -> "Linear"

isWeight(p) == p \in {"pre.hpf.weight", "conv.weight", "bn.weight", "fc1.weight"}

\* the kernels build_filters returns, viewed as 62 x 1 x 5 x 5
build_filters == <<"filters", 0>>

\* parameter values after Net(): the filter bank holds build_filters(), the rest
\* the layers' default initialisation
ConstructedW == [p \in Params |->
                   IF p = "pre.hpf.weight" THEN build_filters ELSE <<"default", 0>>]

\* initWeights applied to every module by model.apply
initWeights(w) ==
    [p \in Params |->
        IF moduleType(p) = "Conv2d" /\ isWeight(p)
        THEN IF requires_grad(p) THEN <<"kaiming_normal", 0>> ELSE w[p]
        ELSE IF moduleType(p) = "Linear"
        THEN IF isWeight(p) THEN <<"normal", 0>> ELSE <<"constant", 0>>
        ELSE w[p]]

\* the two parameter groups given to optim.SGD
params_wd == {p \in Params : requires_grad(p) /\ dim(p) # 1}
params_rest == {p \in Params : requires_grad(p) /\ dim(p) = 1}

----------------------------------------------------------------------------
(* One iteration of the loop of train *)

\* the statements of the loop body that touch the model, lines 252-264
TrainBody == <<"zero_grad", "forward", "loss", "backward", "step">>

\* the gradients of earlier batches left in place
zero_grad_kept(g) == g

\* optimizer.zero_grad()
zero_grad(g) == 0

\* loss.backward(): adds the batch's gradients to .grad
backward(g) == g + 1

\* model(data) in train mode: every BatchNorm2d updates its running statistics
\* from the batch, computed with the current parameters
TrainModeForward(m) ==
    [m EXCEPT !.bn = IF m.bn.ver = m.steps
                     THEN [ver |-> m.steps, n |-> m.bn.n + 1]
                     ELSE [ver |-> m.steps, n |-> 1]]

\* optimizer.step(): SGD updates the parameters of its groups
SgdStep(m, opt) ==
    [m EXCEPT !.w = [p \in Params |->
                        IF p \in (opt.wd \cup opt.rest)
                        THEN <<"sgd", m.steps + 1>> ELSE m.w[p]],
              !.steps = m.steps + 1]

----------------------------------------------------------------------------
(* MultiStepLR(optimizer, milestones=DECAY_EPOCH, gamma=0.1); the learning   *)
(* rate is LR * 0.1^lrExp                                                    *)

\* bisect_right(milestones, e)
MilestonesUpTo(e) == Cardinality({m \in DECAY_EPOCH : m <= e})

\* the constructor: initial_lr is set where the group has none, then one step
\* to last_epoch = 0
SchedInit(opt, variant) ==
    LET init == IF opt.initial_lr = -1 THEN opt.lrExp ELSE opt.initial_lr
    IN  [opt EXCEPT !.initial_lr = init,
                    !.lrExp = IF variant = "closed_form" THEN init ELSE opt.lrExp]

\* scheduler.step(): last_epoch += 1, then get_lr. The closed form computes
\* initial_lr * gamma^bisect_right(milestones, last_epoch); the chainable form
\* multiplies the group's current rate by gamma when last_epoch is a milestone
SchedStep(opt, last, variant) ==
    [opt EXCEPT !.lrExp = IF variant = "closed_form"
                          THEN opt.initial_lr + MilestonesUpTo(last)
                          ELSE IF last \in DECAY_EPOCH THEN opt.lrExp + 1
                          ELSE opt.lrExp]

----------------------------------------------------------------------------
(* Checkpoints *)

\* all_state of evaluate
AllState(m, opt, e) ==
    [original_state |-> m,
     optimizer_state |-> [lrExp |-> opt.lrExp, initial_lr |-> opt.initial_lr,
                          mom |-> opt.mom],
     epoch |-> e]

\* model.load_state_dict / optimizer.load_state_dict
LoadModel(file) == file.original_state
LoadOptimizer(opt, file) ==
    [opt EXCEPT !.lrExp = file.optimizer_state.lrExp,
                !.initial_lr = file.optimizer_state.initial_lr,
                !.mom = file.optimizer_state.mom]

\* a save condition that lets a later epoch of equal accuracy replace the checkpoint
SaveCondTie(accuracy, best, e) == accuracy >= best /\ e > TMP

\* the save condition of evaluate
SaveCond(accuracy, best, e) == accuracy > best /\ e > TMP

\* a checkpoint evaluate wrote at epoch s of an earlier run started at epoch 1
EarlierCheckpoint(s) ==
    [original_state |->
        [w |-> [p \in Params |-> IF requires_grad(p) THEN <<"sgd", s * NumBatches>>
                                 ELSE build_filters],
         steps |-> s * NumBatches,
         bn |-> [ver |-> s * NumBatches, n |-> NumBatches]],
     optimizer_state |-> [lrExp |-> MilestonesUpTo(s), initial_lr |-> 0,
                          mom |-> s * NumBatches],
     epoch |-> s]

\* evaluate saves at epochs TMP < s <= EPOCHS only
ResumeEpochs == (TMP + 1)..EPOCHS

----------------------------------------------------------------------------
(* Arrays (numpy / torch): [shape, at], at a function of the 0-based index *)
(* tuples, stored in row-major order                                       *)

RECURSIVE Indices(_)
Indices(shape) ==
    IF shape = << >> THEN {<< >>}
    ELSE {<<h>> \o t : h \in 0..(shape[1] - 1), t \in Indices(Tail(shape))}

\* position of an index tuple in the row-major storage
RECURSIVE Offset(_, _)
Offset(idx, shape) ==
    IF shape = << >> THEN 0
    ELSE LET n == Len(shape)
         IN  Offset(SubSeq(idx, 1, n - 1), SubSeq(shape, 1, n - 1)) * shape[n] + idx[n]

\* the index tuple at a position of the row-major storage
RECURSIVE Unravel(_, _)
Unravel(off, shape) ==
    IF shape = << >> THEN << >>
    ELSE LET n == Len(shape)
         IN  Append(Unravel(off \div shape[n], SubSeq(shape, 1, n - 1)), off % shape[n])

Array(shape, f(_)) == [shape |-> shape, at |-> [idx \in Indices(shape) |-> f(idx)]]

\* a.reshape(newshape): same storage, new index tuples
Reshape(a, newshape) ==
    Array(newshape, LAMBDA idx : a.at[Unravel(Offset(idx, newshape), a.shape)])

\* np.flip(a, axis)
np_flip(a, axis) ==
    Array(a.shape,
          LAMBDA idx : a.at[[idx EXCEPT ![axis + 1] = a.shape[axis + 1] - 1 - idx[axis + 1]]])

\* np.transpose / swapaxes of two axes
SwapAxes(a, ax1, ax2) ==
    LET sw(t) == [t EXCEPT ![ax1 + 1] = t[ax2 + 1], ![ax2 + 1] = t[ax1 + 1]]
    IN  Array(sw(a.shape), LAMBDA idx : a.at[sw(idx)])

\* np.rot90(a, k, axes=[ax1, ax2])
np_rot90(a, k, ax1, ax2) ==
    CASE k % 4 = 0 -> a
      [] k % 4 = 2 -> np_flip(np_flip(a, ax1), ax2)
      [] k % 4 = 1 -> SwapAxes(np_flip(a, ax2), ax1, ax2)
      [] OTHER -> np_flip(SwapAxes(a, ax1, ax2), ax2)

\* np.stack of a sequence of equally shaped arrays along a new first axis
np_stack(arrs) ==
    Array(<<Len(arrs)>> \o arrs[1].shape, LAMBDA idx : arrs[idx[1] + 1].at[Tail(idx)])

----------------------------------------------------------------------------
(* MyDataset.__getitem__, AugData, the loader's collate and the reshape of *)
(* train / adjust_bn_stats / evaluate                                      *)

\* cv2.imread(path, -1): rows x columns x (B, G, R) of the file's pixels
imread(kind, file) ==
    Array(<<ImgSize, ImgSize, 3>>,
          LAMBDA idx : <<kind, file, <<"B", "G", "R">>[idx[3] + 1], idx[1], idx[2]>>)

\* cv2.cvtColor(img, cv2.COLOR_BGR2RGB): the channel order reversed
cvtColor_BGR2RGB(img) == np_flip(img, 2)

\* np.transpose(img, (2, 0, 1))
transpose_201(img) ==
    Array(<<img.shape[3], img.shape[1], img.shape[2]>>,
          LAMBDA idx : img.at[<<idx[2], idx[3], idx[1]>>])

\* the file indices np.load(index_path) gives
index_list == [k \in 0..(NumItems - 1) |-> 1000 + k]

\* AugData with the flip taken along the first axis of the stacked pair
AugDataFlipPair(sample, rot, flip) ==
    LET rotated == np_rot90(sample.data, rot, 2, 3)
    IN  [data |-> IF flip THEN np_flip(rotated, 0) ELSE rotated, label |-> sample.label]

\* AugData.__call__ with the values random.randint(0, 3) and random.random() < 0.5 gave
AugData(sample, rot, flip) ==
    LET rotated == np_rot90(sample.data, rot, 2, 3)
    IN  [data |-> IF flip THEN np_flip(rotated, 2) ELSE rotated, label |-> sample.label]

\* MyDataset.__getitem__(idx), the transform being AugData (training) or none
getitem(idx, augment, rot, flip) ==
    LET file_index == index_list[idx]
        cover_data == transpose_201(cvtColor_BGR2RGB(imread("cover", file_index)))
        stego_data == transpose_201(cvtColor_BGR2RGB(imread("stego", file_index)))
        sample == [data |-> np_stack(<<cover_data, stego_data>>),
                   label |-> Array(<<2>>, LAMBDA idx2 : idx2[1])]
    IN  IF augment THEN AugData(sample, rot, flip) ELSE sample

\* data.reshape(shape[0] * shape[1], *shape[2:])
ReshapeData(data) ==
    Reshape(data, <<data.shape[1] * data.shape[2]>> \o SubSeq(data.shape, 3, Len(data.shape)))

\* label.reshape(-1)
ReshapeLabel(label) == Reshape(label, <<label.shape[1] * label.shape[2]>>)

EmptyArray == [shape |-> << >>, at |-> << >>]
BatchIdle == [pc |-> "idle", augment |-> FALSE, drawn |-> << >>, samples |-> << >>,
              data |-> EmptyArray, label |-> EmptyArray]

BatchInit ==
    /\ bt \in {[BatchIdle EXCEPT !.pc = "sampling", !.augment = a] : a \in BOOLEAN}
    /\ nt = NetIdle
    /\ pc = "idle"
    /\ model = [w |-> ConstructedW, steps |-> 0, bn |-> [ver |-> 0, n |-> 0]]
    /\ optimizer = [wd |-> {}, rest |-> {}, lrExp |-> 0, initial_lr |-> -1, mom |-> 0]
    /\ grad = 0
    /\ scheduler = NoSched
    /\ torchSched = "chainable"
    /\ statePath = NoFile
    /\ paramsFile = NoFile
    /\ startEpoch = 0
    /\ it = 0
    /\ epoch = Unbound
    /\ best_acc = 0
    /\ i = 0
    /\ tr = [k |-> 0, output |-> 0, loss |-> 0]
    /\ adjusted = 0
    /\ maxAll = 0
    /\ lateMax = 0
    /\ fileAcc = 0
    /\ lastWriter = "nobody"
    /\ lateArg = 0
    /\ stepsInEpoch = 0
    /\ phaseLog = << >>

mainVars == <<pc, model, optimizer, grad, scheduler, torchSched, statePath, paramsFile,
              startEpoch, it, epoch, best_acc, i, tr, adjusted, maxAll, lateMax,
              fileAcc, lastWriter, lateArg, stepsInEpoch, phaseLog>>

\* the loader's sampler draws the next index of the batch (each index once per
\* pass) and the dataset builds its sample
BatchGetItem ==
    /\ bt.pc = "sampling"
    /\ Len(bt.samples) < MaxBatch
    /\ \E idx \in 0..(NumItems - 1), rot \in 0..3, flip \in BOOLEAN :
          /\ \A d \in 1..Len(bt.drawn) : bt.drawn[d].idx # idx
          /\ bt.augment \/ (rot = 0 /\ ~flip)
          /\ bt' = [bt EXCEPT
                      !.drawn = Append(@, [idx |-> idx, rot |-> rot, flip |-> flip]),
                      !.samples = Append(@, getitem(idx, bt.augment, rot, flip))]
    /\ UNCHANGED <<mainVars, nt>>

\* the loader stacks the samples drawn into sample['data'] and sample['label']
BatchCollate ==
    /\ bt.pc = "sampling"
    /\ Len(bt.samples) >= 1
    /\ bt' = [bt EXCEPT !.pc = "collated",
                        !.data = np_stack([b \in 1..Len(bt.samples) |-> bt.samples[b].data]),
                        !.label = np_stack([b \in 1..Len(bt.samples) |-> bt.samples[b].label])]
    /\ UNCHANGED <<mainVars, nt>>

\* lines 246-248 (285-287, 304-306)
BatchReshape ==
    /\ bt.pc = "collated"
    /\ bt' = [bt EXCEPT !.pc = "reshaped",
                        !.data = ReshapeData(bt.data),
                        !.label = ReshapeLabel(bt.label)]
    /\ UNCHANGED <<mainVars, nt>>

BatchNext == BatchGetItem \/ BatchCollate \/ BatchReshape

BatchSpec == BatchInit /\ [][BatchNext]_vars

----------------------------------------------------------------------------
(* The network: layers, the block classes, Net.__init__ and the shapes of   *)
(* a forward pass. A tensor shape is <<n, channels, height, width>>.        *)

\* the names bound in the module's namespace when a function body runs
ModuleNames ==
    {"os", "argparse", "np", "cv2", "Path", "copy", "logging", "random", "sio", "time",
     "math", "torch", "nn", "optim", "Dataset", "DataLoader", "transforms", "Parameter",
     "F", "all_normalized_hpf_list", "IMAGE_SIZE", "BATCH_SIZE", "LR", "WEIGHT_DECAY",
     "TRAIN_FILE_COUNT", "TRAIN_PRINT_FREQUENCY", "EVAL_PRINT_FREQUENCY", "OUTPUT_PATH",
     "TLU", "build_filters", "HPF", "Type1", "Type2", "Type3", "Net", "AverageMeter",
     "train", "adjust_bn_stats", "evaluate", "initWeights", "AugData", "ToTensor",
     "MyDataset", "setLogger", "main", "myParseArgs"}

Conv2d(cin, cout, k, s, p, g) ==
    [op |-> "Conv2d", cin |-> cin, cout |-> cout, k |-> k, s |-> s, p |-> p, g |-> g]
BatchNorm2d(c) ==
    [op |-> "BatchNorm2d", cin |-> c, cout |-> c, k |-> 1, s |-> 1, p |-> 0, g |-> 1]
ReLU == [op |-> "ReLU", cin |-> 0, cout |-> 0, k |-> 1, s |-> 1, p |-> 0, g |-> 1]
TLU == [op |-> "TLU", cin |-> 0, cout |-> 0, k |-> 1, s |-> 1, p |-> 0, g |-> 1]
AvgPool2d(k, s, p) ==
    [op |-> "AvgPool2d", cin |-> 0, cout |-> 0, k |-> k, s |-> s, p |-> p, g |-> 1]

Ok(shape) == [err |-> "none", shape |-> shape]
Raise(e) == [err |-> e, shape |-> << >>]

\* output size of a convolution or pooling window along one side
Side(h, l) == (h + 2 * l.p - l.k) \div l.s + 1

\* the shape a layer gives, or the error it raises
LayerOut(l, x) ==
    IF x.err # "none" THEN x
    ELSE LET sh == x.shape
         IN  CASE l.op = "Conv2d" ->
                    IF sh[2] # l.cin \/ sh[3] + 2 * l.p < l.k \/ sh[4] + 2 * l.p < l.k
                    THEN Raise("RuntimeError")
                    ELSE Ok(<<sh[1], l.cout, Side(sh[3], l), Side(sh[4], l)>>)
               [] l.op = "BatchNorm2d" ->
                    IF sh[2] # l.cin THEN Raise("RuntimeError") ELSE x
               [] l.op = "AvgPool2d" ->
                    IF sh[3] + 2 * l.p < l.k \/ sh[4] + 2 * l.p < l.k
                    THEN Raise("RuntimeError")
                    ELSE Ok(<<sh[1], sh[2], Side(sh[3], l), Side(sh[4], l)>>)
               [] OTHER -> x

\* nn.Sequential
RECURSIVE SeqOut(_, _)
SeqOut(layers, x) ==
    IF layers = << >> THEN x ELSE SeqOut(Tail(layers), LayerOut(Head(layers), x))

\* the classes HPF, Type1, Type2, Type3: the layers of basic and of shortcut
ClassLayers(cls, a) ==
    CASE cls = "HPF" ->
           [cls |-> cls, basic |-> <<Conv2d(1, 62, 5, 1, 2, 1), TLU>>, shortcut |-> << >>]
      [] cls = "Type1" ->
           [cls |-> cls,
            basic |-> <<Conv2d(a[1], a[2], 3, 1, 1, 1), BatchNorm2d(a[2]), ReLU,
                        Conv2d(a[2], a[2], 3, 1, 1, 1), BatchNorm2d(a[2]), ReLU>>,
            shortcut |-> << >>]
      [] cls = "Type2" ->
           [cls |-> cls,
            basic |-> <<Conv2d(a[1], a[1], 3, 1, 1, 1), BatchNorm2d(a[1]), ReLU,
                        Conv2d(a[1], a[2], 3, 1, 1, 1), BatchNorm2d(a[2]),
                        AvgPool2d(3, 2, 1)>>,
            shortcut |-> <<Conv2d(a[1], a[2], 1, 2, 0, 1), BatchNorm2d(a[2])>>]
      [] cls = "Type3" ->
           [cls |-> cls,
            basic |-> <<Conv2d(a[1], a[2], 1, 1, 0, 1), BatchNorm2d(a[2]), ReLU,
                        Conv2d(a[2], a[2], 3, 2, 1, 32), BatchNorm2d(a[2]), ReLU,
                        Conv2d(a[2], a[2], 1, 1, 0, 1), BatchNorm2d(a[2])>>,
            shortcut |-> <<Conv2d(a[1], a[2], 3, 2, 1, 1), BatchNorm2d(a[2])>>]

\* nn.Conv2d raises ValueError when groups divides not both channel counts
LayersValid(layers) ==
    \A j \in 1..Len(layers) :
        layers[j].op = "Conv2d" =>
            layers[j].cin % layers[j].g = 0 /\ layers[j].cout % layers[j].g = 0

\* forward of HPF / Type1 (basic only) and of Type2 / Type3 (out += shortcut(x))
BlockForward(obj, x) ==
    LET out == SeqOut(obj.basic, x)
        sc == SeqOut(obj.shortcut, x)
    IN  IF obj.shortcut = << >> \/ out.err # "none" THEN out
        ELSE IF sc.err # "none" THEN sc
        ELSE IF sc.shape # out.shape THEN Raise("RuntimeError")
        ELSE out

\* the assignments of Net.__init__: attribute, the name called, its arguments
NetInitBody ==
    <<[attr |-> "pre", name |-> "HPF", args |-> << >>],
      [attr |-> "group1", name |-> "type1", args |-> <<186, 32>>],
      [attr |-> "group2", name |-> "type2", args |-> <<32, 32>>],
      [attr |-> "group3", name |-> "type3", args |-> <<32, 64>>],
      [attr |-> "group4", name |-> "type2", args |-> <<64, 128>>],
      [attr |-> "group5", name |-> "type1", args |-> <<128, 256>>]>>

\* self.avg and self.fc1
NetAvg == AvgPool2d(32, 1, 0)
NetFc1 == [in_features |-> 1 * 1 * 256, out_features |-> 2]

\* the attributes Net.__init__ has assigned when it returns or raises: each
\* name called is looked up in the module's namespace
RECURSIVE RunInit(_, _)
RunInit(body, done) ==
    IF body = << >> THEN [err |-> "none", attrs |-> done]
    ELSE IF Head(body).name \notin ModuleNames THEN [err |-> "NameError", attrs |-> done]
    ELSE IF ~LayersValid(ClassLayers(Head(body).name, Head(body).args).basic)
    THEN [err |-> "ValueError", attrs |-> done]
    ELSE RunInit(Tail(body),
                 Append(done, [attr |-> Head(body).attr,
                               obj |-> ClassLayers(Head(body).name, Head(body).args)]))

\* Net.forward on an input of shape x: the colour channels 0, 1, 2 pass the
\* filter bank one by one and are concatenated, then the groups, the
\* pooling, the flattening and fc1
RECURSIVE GroupsOut(_, _)
GroupsOut(attrs, x) ==
    IF attrs = << >> \/ x.err # "none" THEN x
    ELSE GroupsOut(Tail(attrs), BlockForward(Head(attrs).obj, x))

NetForward(attrs, sh) ==
    IF sh[2] < 3 THEN Raise("IndexError")
    ELSE LET c == BlockForward(attrs[1].obj, Ok(<<sh[1], 1, sh[3], sh[4]>>))
             cat == IF c.err # "none" THEN c
                    ELSE Ok(<<sh[1], 3 * c.shape[2], c.shape[3], c.shape[4]>>)
             g == GroupsOut(Tail(attrs), cat)
             pooled == LayerOut(NetAvg, g)
             flat == IF pooled.err # "none" THEN pooled
                     ELSE Ok(<<sh[1], pooled.shape[2] * pooled.shape[3] * pooled.shape[4]>>)
         IN  IF flat.err # "none" THEN flat
             ELSE IF flat.shape[2] # NetFc1.in_features THEN Raise("RuntimeError")
             ELSE Ok(<<sh[1], NetFc1.out_features>>)

\* the feature map Net.forward hands to self.avg
NetFeatureMap(attrs, sh) ==
    LET c == BlockForward(attrs[1].obj, Ok(<<sh[1], 1, sh[3], sh[4]>>))
    IN  IF c.err # "none" THEN c
        ELSE GroupsOut(Tail(attrs), Ok(<<sh[1], 3 * c.shape[2], c.shape[3], c.shape[4]>>))

\* the classes constructed and the arguments they are given in the file
Targets ==
    {[cls |-> "HPF", args |-> << >>, cin |-> 1],
     [cls |-> "Type1", args |-> <<186, 32>>, cin |-> 186],
     [cls |-> "Type1", args |-> <<128, 256>>, cin |-> 128],
     [cls |-> "Type2", args |-> <<32, 32>>, cin |-> 32],
     [cls |-> "Type2", args |-> <<64, 128>>, cin |-> 64],
     [cls |-> "Type3", args |-> <<32, 64>>, cin |-> 32],
     [cls |-> "Net", args |-> << >>, cin |-> 3]}

Sides == (1..MaxSide) \cup {IMAGE_SIZE}

NetInit ==
    /\ \E t \in Targets, n \in 1..MaxN, h \in Sides :
          nt = [pc |-> "construct", target |-> t.cls, args |-> t.args,
                x |-> <<n, t.cin, h, h>>, err |-> "none", attrs |-> << >>,
                out |-> << >>, map |-> << >>]
    /\ bt = BatchIdle
    /\ pc = "idle"
    /\ model = [w |-> ConstructedW, steps |-> 0, bn |-> [ver |-> 0, n |-> 0]]
    /\ optimizer = [wd |-> {}, rest |-> {}, lrExp |-> 0, initial_lr |-> -1, mom |-> 0]
    /\ grad = 0
    /\ scheduler = NoSched
    /\ torchSched = "chainable"
    /\ statePath = NoFile
    /\ paramsFile = NoFile
    /\ startEpoch = 0
    /\ it = 0
    /\ epoch = Unbound
    /\ best_acc = 0
    /\ i = 0
    /\ tr = [k |-> 0, output |-> 0, loss |-> 0]
    /\ adjusted = 0
    /\ maxAll = 0
    /\ lateMax = 0
    /\ fileAcc = 0
    /\ lastWriter = "nobody"
    /\ lateArg = 0
    /\ stepsInEpoch = 0
    /\ phaseLog = << >>

\* m = Cls(*args): the constructor returns the module or raises
NetConstruct ==
    /\ nt.pc = "construct"
    /\ LET r == IF nt.target = "Net" THEN RunInit(NetInitBody, << >>)
                ELSE RunInit(<<[attr |-> "self", name |-> nt.target, args |-> nt.args]>>,
                             << >>)
       IN  nt' = [nt EXCEPT !.err = r.err, !.attrs = r.attrs,
                            !.pc = IF r.err = "none" THEN "forward" ELSE "finished"]
    /\ UNCHANGED <<mainVars, bt>>

\* y = m(x)
NetCall ==
    /\ nt.pc = "forward"
    /\ LET r == IF nt.target = "Net" THEN NetForward(nt.attrs, nt.x)
                ELSE BlockForward(nt.attrs[1].obj, Ok(nt.x))
           fm == IF nt.target = "Net" THEN NetFeatureMap(nt.attrs, nt.x) ELSE r
       IN  nt' = [nt EXCEPT !.err = r.err, !.out = r.shape, !.map = fm.shape,
                            !.pc = "finished"]
    /\ UNCHANGED <<mainVars, bt>>

NetNext == NetConstruct \/ NetCall

NetSpec == NetInit /\ [][NetNext]_vars

----------------------------------------------------------------------------
(* main, from line 478 on. The run starts with the network constructed and *)
(* the names read by lines 428-477 resolved; as written, PARAMS_INIT_NAME  *)
(* (line 463) is bound nowhere in the file and Net() raises NameError,     *)
(* which NetSpec above models.                                              *)

\* evaluate called right after train
AfterTrainNoAdjust(e) == "evaluate"

\* what main does after train returns (line 524)
AfterTrain(e) == IF e % EVAL_PRINT_FREQUENCY = 0 THEN "adjust_bn_stats" ELSE "for_epoch"

\* what main does after adjust_bn_stats returns (lines 526, 538)
AfterAdjust(at) == IF at = "adjust_bn_stats" THEN "evaluate" ELSE "test_evaluate"

MainInit ==
    /\ pc = "apply_initWeights"
    /\ model = [w |-> ConstructedW, steps |-> 0, bn |-> [ver |-> 0, n |-> 0]]
    /\ optimizer = [wd |-> {}, rest |-> {}, lrExp |-> 0, initial_lr |-> -1, mom |-> 0]
    /\ grad = 0
    /\ scheduler = NoSched
    /\ torchSched \in {"closed_form", "chainable"}
    /\ statePath \in {NoFile} \cup {EarlierCheckpoint(s) : s \in ResumeEpochs}
    /\ paramsFile \in {NoFile, statePath}
    /\ startEpoch = 0
    /\ it = 0
    /\ epoch = Unbound
    /\ best_acc = 0
    /\ i = 0
    /\ tr = [k |-> 0, output |-> 0, loss |-> 0]
    /\ adjusted = 0
    /\ maxAll = 0
    /\ lateMax = 0
    /\ fileAcc = 0
    /\ lastWriter = IF paramsFile = NoFile THEN "nobody" ELSE "earlier_run"
    /\ lateArg = 0
    /\ stepsInEpoch = 0
    /\ phaseLog = << >>
    /\ bt = BatchIdle
    /\ nt = NetIdle

\* line 478: model.apply(initWeights)
ApplyInitWeights ==
    /\ UNCHANGED <<bt, nt>>
    /\ pc = "apply_initWeights"
    /\ model' = [model EXCEPT !.w = initWeights(model.w)]
    /\ pc' = "build_optimizer"
    /\ UNCHANGED <<optimizer, grad, scheduler, torchSched, statePath, paramsFile,
                   startEpoch, it, epoch, best_acc, i, tr, adjusted, maxAll, lateMax,
                   fileAcc, lastWriter, lateArg, stepsInEpoch, phaseLog>>

\* lines 480-490: the parameter groups and optim.SGD(param_groups, lr=LR)
BuildOptimizer ==
    /\ UNCHANGED <<bt, nt>>
    /\ pc = "build_optimizer"
    /\ optimizer' = [optimizer EXCEPT !.wd = params_wd, !.rest = params_rest,
                                      !.lrExp = 0]
    /\ pc' = "resume"
    /\ UNCHANGED <<model, grad, scheduler, torchSched, statePath, paramsFile,
                   startEpoch, it, epoch, best_acc, i, tr, adjusted, maxAll, lateMax,
                   fileAcc, lastWriter, lateArg, stepsInEpoch, phaseLog>>

\* lines 497-518: load the state given by statePath, or start at epoch 1; then
\* the scheduler and best_acc
Resume ==
    /\ UNCHANGED <<bt, nt>>
    /\ pc = "resume"
    /\ IF statePath # NoFile
       THEN /\ epoch' = statePath.epoch
            /\ model' = LoadModel(statePath)
            /\ optimizer' = SchedInit(LoadOptimizer(optimizer, statePath), torchSched)
            /\ startEpoch' = statePath.epoch + 1
            /\ it' = statePath.epoch + 1
       ELSE /\ startEpoch' = 1
            /\ it' = 1
            /\ optimizer' = SchedInit(optimizer, torchSched)
            /\ UNCHANGED <<epoch, model>>
    /\ adjusted' = 0
    /\ scheduler' = [last_epoch |-> 0]
    /\ best_acc' = 0
    /\ pc' = "for_epoch"
    /\ UNCHANGED <<grad, torchSched, statePath, paramsFile, i, tr, maxAll, lateMax,
                   fileAcc, lastWriter, lateArg, stepsInEpoch, phaseLog>>

\* lines 519-522: the next epoch of range(startEpoch, EPOCHS + 1),
\* scheduler.step() and the call of train; line 528 when the range is exhausted
ForEpoch ==
    /\ UNCHANGED <<bt, nt>>
    /\ pc = "for_epoch"
    /\ IF it <= EPOCHS
       THEN /\ epoch' = it
            /\ it' = it + 1
            /\ scheduler' = [last_epoch |-> scheduler.last_epoch + 1]
            /\ optimizer' = SchedStep(optimizer, scheduler.last_epoch + 1, torchSched)
            /\ i' = 0
            /\ tr' = [k |-> 0, output |-> 0, loss |-> 0]
            /\ stepsInEpoch' = 0
            /\ phaseLog' = <<"train">>
            /\ pc' = "train"
       ELSE /\ pc' = "load_best"
            /\ UNCHANGED <<epoch, it, scheduler, optimizer, i, tr, stepsInEpoch,
                           phaseLog>>
    /\ UNCHANGED <<model, grad, torchSched, statePath, paramsFile, startEpoch,
                   best_acc, adjusted, maxAll, lateMax, fileAcc, lastWriter, lateArg>>

\* lines 240-250: the loader yields the next batch of train
TrainFetch ==
    /\ UNCHANGED <<bt, nt>>
    /\ pc = "train"
    /\ tr.k = 0
    /\ i < NumBatches
    /\ tr' = [tr EXCEPT !.k = 1]
    /\ UNCHANGED <<pc, model, optimizer, grad, scheduler, torchSched, statePath,
                   paramsFile, startEpoch, it, epoch, best_acc, i, adjusted, maxAll,
                   lateMax, fileAcc, lastWriter, lateArg, stepsInEpoch, phaseLog>>

\* lines 252-264: the next statement of the loop body of train
TrainStmt ==
    /\ UNCHANGED <<bt, nt>>
    /\ pc = "train"
    /\ tr.k \in 1..Len(TrainBody)
    /\ LET stmt == TrainBody[tr.k]
           last == tr.k = Len(TrainBody)
       IN  /\ grad' = CASE stmt = "zero_grad" -> zero_grad(grad)
                        [] stmt = "backward" -> IF tr.loss # 0 THEN backward(grad) ELSE grad
                        [] OTHER -> grad
           /\ model' = CASE stmt = "forward" -> TrainModeForward(model)
                         [] stmt = "step" -> SgdStep(model, optimizer)
                         [] OTHER -> model
           /\ optimizer' = IF stmt = "step"
                           THEN [optimizer EXCEPT !.mom = optimizer.mom + 1]
                           ELSE optimizer
           /\ adjusted' = IF stmt = "step" THEN 0 ELSE adjusted
           /\ stepsInEpoch' = IF stmt = "step" THEN stepsInEpoch + 1 ELSE stepsInEpoch
           /\ tr' = [k |-> IF last THEN 0 ELSE tr.k + 1,
                     output |-> IF stmt = "forward" THEN i + 1 ELSE tr.output,
                     loss |-> IF stmt = "loss" THEN tr.output ELSE tr.loss]
           /\ i' = IF last THEN i + 1 ELSE i
    /\ UNCHANGED <<pc, scheduler, torchSched, statePath, paramsFile, startEpoch, it,
                   epoch, best_acc, maxAll, lateMax, fileAcc, lastWriter, lateArg,
                   phaseLog>>

\* the loader is exhausted and train returns; line 524
TrainReturn ==
    /\ UNCHANGED <<bt, nt>>
    /\ pc = "train"
    /\ tr.k = 0
    /\ i = NumBatches
    /\ pc' = AfterTrain(epoch)
    /\ phaseLog' = IF AfterTrain(epoch) = "for_epoch" THEN phaseLog
                   ELSE Append(phaseLog, AfterTrain(epoch))
    /\ i' = 0
    /\ UNCHANGED <<model, optimizer, grad, scheduler, torchSched, statePath,
                   paramsFile, startEpoch, it, epoch, best_acc, tr, adjusted, maxAll,
                   lateMax, fileAcc, lastWriter, lateArg, stepsInEpoch>>

\* lines 282-291: one batch of adjust_bn_stats, in the loop (line 525) or in
\* the test phase (line 537); with the loader's last batch it returns
AdjustBatch ==
    /\ UNCHANGED <<bt, nt>>
    /\ pc \in {"adjust_bn_stats", "test_adjust_bn_stats"}
    /\ i < NumBatches
    /\ model' = TrainModeForward(model)
    /\ adjusted' = adjusted + 1
    /\ i' = IF i + 1 = NumBatches THEN 0 ELSE i + 1
    /\ pc' = IF i + 1 < NumBatches THEN pc ELSE AfterAdjust(pc)
    /\ phaseLog' = IF i + 1 < NumBatches THEN phaseLog
                   ELSE Append(phaseLog, AfterAdjust(pc))
    /\ UNCHANGED <<optimizer, grad, scheduler, torchSched, statePath, paramsFile,
                   startEpoch, it, epoch, best_acc, tr, maxAll, lateMax, fileAcc,
                   lastWriter, lateArg, stepsInEpoch>>

\* lines 294-329: evaluate on a loader whose images give the accuracy; the
\* new best_acc is returned in ret
evaluate(accuracy, best, who, ret) ==
    IF SaveCond(accuracy, best, epoch)
    THEN /\ paramsFile' = AllState(model, optimizer, epoch)
         /\ fileAcc' = accuracy
         /\ lastWriter' = who
         /\ ret = accuracy
    ELSE /\ UNCHANGED <<paramsFile, fileAcc, lastWriter>>
         /\ ret = best

\* line 526: best_acc = evaluate(..., valid_loader, epoch, ..., best_acc, ...)
EvaluateValid ==
    /\ UNCHANGED <<bt, nt>>
    /\ pc = "evaluate"
    /\ \E accuracy \in 0..AccLevels :
          /\ \E ret \in 0..AccLevels :
                /\ evaluate(accuracy, best_acc, "valid", ret)
                /\ best_acc' = ret
          /\ maxAll' = IF accuracy > maxAll THEN accuracy ELSE maxAll
          /\ lateMax' = IF epoch > TMP /\ accuracy > lateMax THEN accuracy ELSE lateMax
          /\ lateArg' = IF epoch > TMP /\ accuracy > lateMax THEN epoch ELSE lateArg
    /\ pc' = "for_epoch"
    /\ UNCHANGED <<model, optimizer, grad, scheduler, torchSched, statePath,
                   startEpoch, it, epoch, i, tr, adjusted, stepsInEpoch, phaseLog>>

\* lines 531-535: load the best parameters from PARAMS_PATH
LoadBest ==
    /\ UNCHANGED <<bt, nt>>
    /\ pc = "load_best"
    /\ IF paramsFile = NoFile
       THEN /\ pc' = "FileNotFoundError"
            /\ UNCHANGED <<model, optimizer, adjusted, phaseLog>>
       ELSE /\ model' = LoadModel(paramsFile)
            /\ optimizer' = LoadOptimizer(optimizer, paramsFile)
            /\ adjusted' = 0
            /\ phaseLog' = <<"load", "test_adjust_bn_stats">>
            /\ pc' = "test_adjust_bn_stats"
    /\ i' = 0
    /\ UNCHANGED <<grad, scheduler, torchSched, statePath, paramsFile, startEpoch,
                   it, epoch, best_acc, tr, maxAll, lateMax, fileAcc, lastWriter,
                   lateArg, stepsInEpoch>>

\* line 538: evaluate(..., test_loader, epoch, ..., best_acc, ...); the value
\* returned is dropped
EvaluateTest ==
    /\ UNCHANGED <<bt, nt>>
    /\ pc = "test_evaluate"
    /\ IF epoch = Unbound
       THEN /\ pc' = "NameError"
            /\ UNCHANGED <<paramsFile, fileAcc, lastWriter>>
       ELSE /\ \E accuracy \in 0..AccLevels :
                  \E ret \in 0..AccLevels : evaluate(accuracy, best_acc, "test", ret)
            /\ pc' = "done"
    /\ UNCHANGED <<model, optimizer, grad, scheduler, torchSched, statePath,
                   startEpoch, it, epoch, best_acc, i, tr, adjusted, maxAll, lateMax,
                   lateArg, stepsInEpoch, phaseLog>>

Init == MainInit

Next ==
    \/ ApplyInitWeights
    \/ BuildOptimizer
    \/ Resume
    \/ ForEpoch
    \/ TrainFetch
    \/ TrainStmt
    \/ TrainReturn
    \/ AdjustBatch
    \/ EvaluateValid
    \/ LoadBest
    \/ EvaluateTest

Spec == Init /\ [][Next]_vars

----------------------------------------------------------------------------
(* Properties of the training run *)

\* optimizer steps the loaded state had already taken
StepsBase == IF statePath = NoFile THEN 0 ELSE statePath.original_state.steps

\* optimizer steps taken when epoch e of this run has been trained
StepsAfter(e) == StepsBase + (e - startEpoch + 1) * NumBatches

\* the model state evaluate sees at epoch e: trained through e, batch-norm
\* statistics re-estimated on a full pass
EndOfEpochModel(e) ==
    [w |-> [p \in Params |-> IF p = "pre.hpf.weight" THEN <<"filters", 0>>
                             ELSE <<"sgd", StepsAfter(e)>>],
     steps |-> StepsAfter(e),
     bn |-> [ver |-> StepsAfter(e), n |-> NumBatches]]

\* an evaluate call of the epoch loop has just returned
AfterLoopEvaluate == pc = "for_epoch" /\ it > startEpoch

C2_BnStatsBeforeEvaluate ==
    /\ pc \in {"evaluate", "test_evaluate"} => adjusted = NumBatches
    /\ pc \in {"adjust_bn_stats", "evaluate"} => stepsInEpoch = NumBatches
    /\ pc = "evaluate" => phaseLog = <<"train", "adjust_bn_stats", "evaluate">>
    /\ AfterLoopEvaluate =>
          /\ phaseLog = <<"train", "adjust_bn_stats", "evaluate">>
          /\ epoch = it - 1
    /\ pc = "test_evaluate" =>
          phaseLog = <<"load", "test_adjust_bn_stats", "test_evaluate">>

\* evaluate is about to run in the second epoch of a run, and on the test set
C2_Witness ==
    \/ pc = "evaluate" /\ epoch = startEpoch + 1 /\ adjusted = NumBatches
    \/ pc = "test_evaluate" /\ adjusted = NumBatches /\ lastWriter = "valid"

\* C3: in train each batch is taken through zero_grad, forward, loss, backward,
\* step: backward starts from cleared gradients, step uses the gradients of
\* the current batch's loss only, N batches give N optimizer steps, and
\* adjust_bn_stats and evaluate take no optimizer step.
C3_TrainLoopBody ==
    /\ (pc = "train" /\ tr.k # 0 /\ TrainBody[tr.k] = "backward") =>
          grad = 0 /\ tr.loss = i + 1
    /\ (pc = "train" /\ tr.k # 0 /\ TrainBody[tr.k] = "step") =>
          grad = 1 /\ tr.loss = i + 1 /\ tr.output = i + 1
    /\ (pc = "train" /\ tr.k = 0) => stepsInEpoch = i
    /\ pc \in {"adjust_bn_stats", "evaluate"} =>
          /\ stepsInEpoch = NumBatches
          /\ model.steps = StepsAfter(epoch)
          /\ optimizer.mom = StepsAfter(epoch)
    /\ pc \in {"test_adjust_bn_stats", "test_evaluate", "done"} =>
          /\ model.steps = paramsFile.original_state.steps
          /\ optimizer.mom = paramsFile.optimizer_state.mom

\* the last batch of a later epoch is about to step: the gradients of earlier
\* batches have been in .grad
C3_Witness ==
    /\ pc = "train" /\ tr.k # 0 /\ TrainBody[tr.k] = "step"
    /\ i = NumBatches - 1 /\ epoch > startEpoch

\* C5: the filter bank's weights are the kernels of build_filters after
\* construction and after initWeights, training steps, adjust_bn_stats,
\* evaluate, and a checkpoint save and load; they are in no parameter group.
C5_FilterBankFixed ==
    /\ model.w["pre.hpf.weight"] = build_filters
    /\ "pre.hpf.weight" \notin (optimizer.wd \cup optimizer.rest)
    /\ lastWriter \in {"valid", "test"} =>
          paramsFile.original_state.w["pre.hpf.weight"] = build_filters

\* a run that trained, saved a checkpoint, loaded it and evaluated on the test set
C5_Witness ==
    /\ pc = "done" /\ startEpoch = 1 /\ lastWriter = "valid"
    /\ model.w["conv.weight"][1] = "sgd"

----------------------------------------------------------------------------
(* Properties of the batch construction *)

\* the colour the loaded images carry in channel ch
ChannelColour(ch) == <<"R", "G", "B">>[ch + 1]

\* C4: a batch of B items becomes 2B images and 2B labels; image 2b is the
\* cover of item b with label 0 and image 2b+1 the stego of the same item with
\* label 1; the pixel at every position of the two comes from the same place
\* of the item's cover and stego files (the same rotation and flip, none
\* without AugData), all pixels are kept and the channels stay in place.
C4_PairedBatch ==
    bt.pc = "reshaped" =>
        LET B == Len(bt.drawn)
        IN  /\ bt.data.shape = <<2 * B, 3, ImgSize, ImgSize>>
            /\ bt.label.shape = <<2 * B>>
            /\ \A b \in 0..(B - 1) :
                  /\ bt.label.at[<<2 * b>>] = 0
                  /\ bt.label.at[<<2 * b + 1>>] = 1
                  /\ \A ch \in 0..2, r \in 0..(ImgSize - 1), c \in 0..(ImgSize - 1) :
                        LET cv == bt.data.at[<<2 * b, ch, r, c>>]
                            st == bt.data.at[<<2 * b + 1, ch, r, c>>]
                        IN  /\ cv[1] = "cover" /\ st[1] = "stego"
                            /\ cv[2] = index_list[bt.drawn[b + 1].idx]
                            /\ SubSeq(st, 2, 5) = SubSeq(cv, 2, 5)
                            /\ cv[3] = ChannelColour(ch)
                            /\ ~bt.augment => cv[4] = r /\ cv[5] = c
                  /\ Cardinality({bt.data.at[<<2 * b, ch, r, c>>] :
                                     ch \in 0..2, r \in 0..(ImgSize - 1),
                                     c \in 0..(ImgSize - 1)}) = 3 * ImgSize * ImgSize

\* a full batch, drawn out of file order, whose first item was rotated and flipped
C4_Witness ==
    /\ bt.pc = "reshaped" /\ bt.augment /\ Len(bt.drawn) = MaxBatch
    /\ bt.drawn[1].rot = 1 /\ bt.drawn[1].flip /\ bt.drawn[1].idx > bt.drawn[2].idx
    /\ bt.data.at[<<0, 0, 0, 1>>] # <<"cover", index_list[bt.drawn[1].idx], "R", 0, 1>>

----------------------------------------------------------------------------
(* Properties of the network *)

\* C6: Net() returns a network whose groups are Type1(186, 32), Type2(32, 32),
\* Type3(32, 64), Type2(64, 128), Type1(128, 256).
C6_NetConstructs ==
    (nt.pc \in {"forward", "finished"} /\ nt.target = "Net") =>
        /\ nt.err # "NameError"
        /\ Len(nt.attrs) = 6
        /\ [j \in 1..5 |-> nt.attrs[j + 1].obj] =
              <<ClassLayers("Type1", <<186, 32>>), ClassLayers("Type2", <<32, 32>>),
                ClassLayers("Type3", <<32, 64>>), ClassLayers("Type2", <<64, 128>>),
                ClassLayers("Type1", <<128, 256>>)>>

\* C7: for n images of 3 x IMAGE_SIZE x IMAGE_SIZE, Net()(x) pools a 32 x 32
\* feature map of 256 channels to 1 x 1 and returns a tensor of shape n x 2.
C7_ForwardShape ==
    (nt.pc = "finished" /\ nt.target = "Net" /\ nt.x[3] = IMAGE_SIZE) =>
        /\ nt.err = "none"
        /\ nt.map = <<nt.x[1], 256, 32, 32>>
        /\ nt.out = <<nt.x[1], 2>>

====
